---- MODULE Spec2Model ----
(***************************************************************************)
(* Model of src/index.py: the data load with its retry (safe_download),    *)
(* the indicator computation (calcular_indicadores) and the rule engine    *)
(* (generar_recomendacion), run in the order the script runs them.         *)
(*                                                                         *)
(* Numbers are exact rationals [k |-> "num", n, d] in lowest terms; the    *)
(* float specials the code can produce are separate kinds: "nan", "inf",   *)
(* "-inf".  Kind "real" is a finite number whose value the model does not  *)
(* track (the exponential averages, whose denominators 13^i, 27^i leave    *)
(* the range of 32-bit integers).  Float rounding is not modelled.         *)
(***************************************************************************)
EXTENDS Integers, Sequences, FiniteSets, TLC

VARIABLES
    pc,           \* position of the script
    provider,     \* what the data provider holds for the requested range
    intentos,     \* outcomes of the attempts safe_download has made so far
    indicadores,  \* the three sidebar flags
    df,           \* the frame safe_download returned
    data,         \* the working frame: column name -> sequence of values
    reco          \* what generar_recomendacion returned

vars == <<pc, provider, intentos, indicadores, df, data, reco>>

----------------------------------------------------------------------------
(* Values and float arithmetic *)

NaN    == [k |-> "nan",  n |-> 0, d |-> 1]
Inf    == [k |-> "inf",  n |-> 0, d |-> 1]
NegInf == [k |-> "-inf", n |-> 0, d |-> 1]
Real   == [k |-> "real", n |-> 0, d |-> 1]

Abs(x) == IF x < 0 THEN -x ELSE x

RECURSIVE Gcd(_, _)
Gcd(a, b) == IF b = 0 THEN a ELSE Gcd(b, a % b)

\* n/d with d > 0, in lowest terms
Frac(n, d) ==
    LET g == Gcd(Abs(n), d)
    IN  [k |-> "num", n |-> n \div g, d |-> d \div g]

Int2V(i) == [k |-> "num", n |-> i, d |-> 1]
Zero     == Int2V(0)

IsNaN(x) == x.k = "nan"
IsNum(x) == x.k = "num"

FNeg(x) ==
    CASE x.k = "num"  -> Frac(-x.n, x.d)
      [] x.k = "inf"  -> NegInf
      [] x.k = "-inf" -> Inf
      [] OTHER        -> x

FAdd(x, y) ==
    CASE x.k = "nan" \/ y.k = "nan"      -> NaN
      [] x.k = "num" /\ y.k = "num"      -> Frac(x.n * y.d + y.n * x.d, x.d * y.d)
      [] x.k = "inf" /\ y.k = "-inf"     -> NaN
      [] x.k = "-inf" /\ y.k = "inf"     -> NaN
      [] x.k \in {"inf", "-inf"}         -> x
      [] y.k \in {"inf", "-inf"}         -> y
      [] OTHER                           -> Real

FSub(x, y) == FAdd(x, FNeg(y))

\* float division: x/0 is +-inf, 0/0 is nan, and nothing raises
FDiv(x, y) ==
    CASE x.k = "nan" \/ y.k = "nan"  -> NaN
      [] x.k = "num" /\ y.k = "num" ->
            IF y.n = 0
            THEN (IF x.n > 0 THEN Inf ELSE IF x.n < 0 THEN NegInf ELSE NaN)
            ELSE IF y.n > 0 THEN Frac(x.n * y.d, x.d * y.n)
                 ELSE Frac(-(x.n * y.d), x.d * (-y.n))
      [] x.k = "num" /\ y.k \in {"inf", "-inf"} -> Zero
      [] x.k \in {"inf", "-inf"} /\ y.k \in {"inf", "-inf"} -> NaN
      [] x.k \in {"inf", "-inf"} /\ y.k = "num" ->
            IF y.n >= 0 THEN x ELSE FNeg(x)
      [] OTHER -> Real

\* x > y as floats compare: FALSE whenever either side is nan
Gt(x, y) ==
    /\ x.k # "nan"
    /\ y.k # "nan"
    /\ CASE x.k = "num" /\ y.k = "num" -> x.n * y.d > y.n * x.d
         [] x.k = "inf"                -> y.k # "inf"
         [] y.k = "-inf"               -> x.k # "-inf"
         [] OTHER                      -> FALSE

Lt(x, y) == Gt(y, x)

----------------------------------------------------------------------------
(* Series operations used by calcular_indicadores *)

\* Series.diff(): the first element has no predecessor
Diff(s) == [i \in 1..Len(s) |-> IF i = 1 THEN NaN ELSE FSub(s[i], s[i - 1])]

\* running sums and running counts of the observations of s[lo..hi] (nan counted
\* as absent), built by halves so that the depth stays logarithmic
Desplazar(left, right) ==
    left \o [i \in 1..Len(right) |-> FAdd(left[Len(left)], right[i])]

RECURSIVE CumSum(_, _, _)
CumSum(s, lo, hi) ==
    IF lo > hi THEN <<>>
    ELSE IF lo = hi THEN <<IF IsNaN(s[lo]) THEN Zero ELSE s[lo]>>
    ELSE Desplazar(CumSum(s, lo, (lo + hi) \div 2), CumSum(s, (lo + hi) \div 2 + 1, hi))

DesplazarObs(left, right) ==
    left \o [i \in 1..Len(right) |-> left[Len(left)] + right[i]]

RECURSIVE CumObs(_, _, _)
CumObs(s, lo, hi) ==
    IF lo > hi THEN <<>>
    ELSE IF lo = hi THEN <<IF IsNaN(s[lo]) THEN 0 ELSE 1>>
    ELSE DesplazarObs(CumObs(s, lo, (lo + hi) \div 2), CumObs(s, (lo + hi) \div 2 + 1, hi))

\* the mean of the trailing window of w, from the running sums and counts
Ventana(sums, obs, n, w) ==
    [i \in 1..n |->
        IF i >= w /\ (IF i = w THEN obs[i] ELSE obs[i] - obs[i - w]) = w
        THEN FDiv(IF i = w THEN sums[i] ELSE FSub(sums[i], sums[i - w]), Int2V(w))
        ELSE NaN]

\* Series.rolling(w).mean(): defined where the trailing window holds w observations
RollingMean(s, w) == Ventana(CumSum(s, 1, Len(s)), CumObs(s, 1, Len(s)), Len(s), w)

\* ewm(span, adjust=False).mean(): e[1] = s[1], e[i] = a*s[i] + (1-a)*e[i-1] with
\* a = 2/(span+1).  While every observation so far equals the first, the average
\* is that value exactly; from the first change on it is a finite number the
\* model does not track.  (Prices here hold no nan.)
PrimerCambio(s) ==
    IF \E j \in 1..Len(s) : s[j] # s[1]
    THEN CHOOSE j \in 1..Len(s) : s[j] # s[1] /\ \A m \in 1..(j - 1) : s[m] = s[1]
    ELSE Len(s) + 1

EwmDesde(s, n, cambio) == [i \in 1..n |-> IF i < cambio THEN s[1] ELSE Real]

EwmMean(s, span) == EwmDesde(s, Len(s), PrimerCambio(s))

SeriesSub(a, b) == [i \in 1..Len(a) |-> FSub(a[i], b[i])]

----------------------------------------------------------------------------
(* calcular_indicadores *)

VentanaCorta == 50
VentanaLarga == 200
PeriodoRSI   == 14

Gain(delta) == [i \in 1..Len(delta) |-> IF Gt(delta[i], Zero) THEN delta[i] ELSE Zero]
\* variant: the losses keep their sign
LossSinSigno(delta) ==
    [i \in 1..Len(delta) |-> IF Lt(delta[i], Zero) THEN delta[i] ELSE Zero]

Loss(delta) == [i \in 1..Len(delta) |-> FNeg(IF Lt(delta[i], Zero) THEN delta[i] ELSE Zero)]

AvgGain(precio) == RollingMean(Gain(Diff(precio)), PeriodoRSI)
AvgLoss(precio) == RollingMean(Loss(Diff(precio)), PeriodoRSI)

\* 100 - (100 / (1 + rs)), rs = avg_gain / avg_loss
RsiDe(g, l) ==
    LET rs == FDiv(g, l)
    IN  FSub(Int2V(100), FDiv(Int2V(100), FAdd(Int2V(1), rs)))

SeriesRsi(ag, al, n) == [i \in 1..n |-> RsiDe(ag[i], al[i])]

ColRSI(precio) == SeriesRsi(AvgGain(precio), AvgLoss(precio), Len(precio))

ConSMA(d) ==
    [SMA50  |-> RollingMean(d["Precio"], VentanaCorta),
     SMA200 |-> RollingMean(d["Precio"], VentanaLarga)] @@ d

ConRSI(d) == [RSI |-> ColRSI(d["Precio"])] @@ d

ConColsMACD(d, macd) == [MACD |-> macd, Signal |-> EwmMean(macd, 9)] @@ d

ConMACD(d) ==
    ConColsMACD(d, SeriesSub(EwmMean(d["Precio"], 12), EwmMean(d["Precio"], 26)))

\* variant: the RSI column hangs on the sma flag
calcular_indicadores_otra_bandera(d, ind) ==
    LET d1 == IF ind.sma  THEN ConSMA(d)   ELSE d
        d2 == IF ind.sma  THEN ConRSI(d1)  ELSE d1
        d3 == IF ind.macd THEN ConMACD(d2) ELSE d2
    IN  d3

calcular_indicadores(d, ind) ==
    LET d1 == IF ind.sma  THEN ConSMA(d)   ELSE d
        d2 == IF ind.rsi  THEN ConRSI(d1)  ELSE d1
        d3 == IF ind.macd THEN ConMACD(d2) ELSE d2
    IN  d3

----------------------------------------------------------------------------
(* generar_recomendacion *)

MsgFaltan   == "Faltan indicadores para generar una recomendación."
MsgAlcista  == "Tendencia alcista (Precio > SMA200 > SMA50)"
MsgBajista  == "Tendencia bajista (Precio < SMA200 < SMA50)"
MsgGolden   == "Golden Cross (SMA50 > SMA200)"
MsgDeath    == "Death Cross (SMA50 < SMA200)"
MsgRsiAlto  == "RSI alto (>70) - posible sobrecompra"
MsgRsiBajo  == "RSI bajo (<30) - posible sobreventa"

Leidas == {"Precio", "SMA50", "SMA200", "RSI"}

\* the try block raises: a column is absent (KeyError) or has no row (IndexError)
Lanza(d) == \E c \in Leidas : c \notin DOMAIN d \/ Len(d[c]) = 0

\* .iloc[-1]
Ultimo(col) == col[Len(col)]

\* variant: "or" for "and" in the trend rule
TendenciaLaxa(p, sma50, sma200) ==
    IF Gt(p, sma200) \/ Gt(sma50, sma200) THEN [c |-> <<MsgAlcista>>, s |-> 1]
    ELSE IF Lt(p, sma200) \/ Lt(sma50, sma200) THEN [c |-> <<MsgBajista>>, s |-> -1]
    ELSE [c |-> <<>>, s |-> 0]

\* each rule group gives the reasons it appends and what it adds to the score
Tendencia(p, sma50, sma200) ==
    IF Gt(p, sma200) /\ Gt(sma50, sma200) THEN [c |-> <<MsgAlcista>>, s |-> 1]
    ELSE IF Lt(p, sma200) /\ Lt(sma50, sma200) THEN [c |-> <<MsgBajista>>, s |-> -1]
    ELSE [c |-> <<>>, s |-> 0]

\* variant: "<=" for "<" in the death cross
CruceConEmpate(sma50, sma200) ==
    IF Gt(sma50, sma200) THEN [c |-> <<MsgGolden>>, s |-> 1]
    ELSE IF Lt(sma50, sma200) \/ sma50 = sma200 THEN [c |-> <<MsgDeath>>, s |-> -1]
    ELSE [c |-> <<>>, s |-> 0]

Cruce(sma50, sma200) ==
    IF Gt(sma50, sma200) THEN [c |-> <<MsgGolden>>, s |-> 1]
    ELSE IF Lt(sma50, sma200) THEN [c |-> <<MsgDeath>>, s |-> -1]
    ELSE [c |-> <<>>, s |-> 0]

\* variant: the two RSI deltas exchanged
ReglaRSIInvertida(rsi) ==
    IF Gt(rsi, Int2V(70)) THEN [c |-> <<MsgRsiAlto>>, s |-> 1]
    ELSE IF Lt(rsi, Int2V(30)) THEN [c |-> <<MsgRsiBajo>>, s |-> -1]
    ELSE [c |-> <<>>, s |-> 0]

ReglaRSI(rsi) ==
    IF Gt(rsi, Int2V(70)) THEN [c |-> <<MsgRsiAlto>>, s |-> -1]
    ELSE IF Lt(rsi, Int2V(30)) THEN [c |-> <<MsgRsiBajo>>, s |-> 1]
    ELSE [c |-> <<>>, s |-> 0]

\* variant: ">" for ">=" in the BUY threshold
ClasificarEstricto(score, condiciones) ==
    IF score > 2 THEN [texto |-> "COMPRA", tipo |-> "buy", condiciones |-> condiciones, score |-> score]
    ELSE IF score <= -2 THEN [texto |-> "VENTA", tipo |-> "sell", condiciones |-> condiciones, score |-> score]
    ELSE [texto |-> "MANTENER", tipo |-> "hold", condiciones |-> condiciones, score |-> score]

Clasificar(score, condiciones) ==
    IF score >= 2 THEN [texto |-> "COMPRA", tipo |-> "buy", condiciones |-> condiciones, score |-> score]
    ELSE IF score <= -2 THEN [texto |-> "VENTA", tipo |-> "sell", condiciones |-> condiciones, score |-> score]
    ELSE [texto |-> "MANTENER", tipo |-> "hold", condiciones |-> condiciones, score |-> score]

\* variant: the except path returns no reason
generar_recomendacion_sin_motivo(d) ==
    IF Lanza(d)
    THEN [texto |-> "MANTENER", tipo |-> "hold", condiciones |-> <<>>, score |-> 0]
    ELSE LET p      == Ultimo(d["Precio"])
             sma50  == Ultimo(d["SMA50"])
             sma200 == Ultimo(d["SMA200"])
             rsi    == Ultimo(d["RSI"])
             t      == Tendencia(p, sma50, sma200)
             x      == Cruce(sma50, sma200)
             r      == ReglaRSI(rsi)
         IN  Clasificar(t.s + x.s + r.s, t.c \o x.c \o r.c)

\* score is the function's local; it is kept next to the returned triple
\* (0 on the except path, where the local is never created)
generar_recomendacion(d) ==
    IF Lanza(d)
    THEN [texto |-> "MANTENER", tipo |-> "hold", condiciones |-> <<MsgFaltan>>, score |-> 0]
    ELSE LET p      == Ultimo(d["Precio"])
             sma50  == Ultimo(d["SMA50"])
             sma200 == Ultimo(d["SMA200"])
             rsi    == Ultimo(d["RSI"])
             t      == Tendencia(p, sma50, sma200)
             x      == Cruce(sma50, sma200)
             r      == ReglaRSI(rsi)
         IN  Clasificar(t.s + x.s + r.s, t.c \o x.c \o r.c)

----------------------------------------------------------------------------
(* The inputs: what the provider may hold for the requested range *)

MaxTail == 1

Shapes     == {"flat", "up", "down", "upzig", "downzig"}
PrefixLens == {10, 13, 49, 199, 249}
TailDeltas == {-150, 0, 150}

\* the i-th price (i = 0, 1, ...) of a series of the given shape
PrecioEn(shape, i) ==
    CASE shape = "flat"    -> 100
      [] shape = "up"      -> 100 + i
      [] shape = "down"    -> 500 - i
      [] shape = "upzig"   -> 100 + (i \div 2) + 2 * (i % 2)
      [] shape = "downzig" -> 500 - (i \div 2) - 2 * (i % 2)

RECURSIVE ConCola(_, _)
ConCola(s, tail) ==
    IF tail = <<>> THEN s
    ELSE ConCola(Append(s, s[Len(s)] + Head(tail)), Tail(tail))

Colas == UNION {[1..k -> TailDeltas] : k \in 0..MaxTail}

SerieDe(shape, n, tail) == ConCola([i \in 1..n |-> PrecioEn(shape, i - 1)], tail)

Series == {SerieDe(sh, n, t) : sh \in Shapes, n \in PrefixLens, t \in Colas}

SeriesCortas == {SerieDe(sh, 10, <<>>) : sh \in Shapes}

Valores(s)   == [i \in 1..Len(s) |-> Int2V(s[i])]
Desplazada(s) == [i \in 1..Len(s) |-> Int2V(s[i] + 1)]
Volumenes(s) == [i \in 1..Len(s) |-> Int2V(1000 + i)]

\* frames as the provider returns them: usually Close and Volume; some with an
\* adjusted close next to the raw close, some without volume, some without
\* any price column; and the empty frame of a range that holds nothing
MarcoVacio == [Close |-> <<>>, Volume |-> <<>>]

Marcos ==
    {[Close |-> Valores(s), Volume |-> Volumenes(s)] : s \in Series}
    \cup {("Adj Close" :> Valores(s)) @@ [Close |-> Desplazada(s), Volume |-> Volumenes(s)]
            : s \in SeriesCortas}
    \cup {[Close |-> Valores(s)] : s \in SeriesCortas}
    \cup {[Volume |-> Volumenes(s)] : s \in SeriesCortas}
    \cup {MarcoVacio}

\* DataFrame.empty
Empty(f) == DOMAIN f = {} \/ \A c \in DOMAIN f : Len(f[c]) = 0

----------------------------------------------------------------------------
(* The script *)

MaxIntentos == 3

SinMarco == [Ninguna |-> <<>>]
SinReco  == [texto |-> "", tipo |-> "", condiciones |-> <<>>, score |-> 0]

Init ==
    /\ pc = "download"
    /\ provider \in Marcos
    /\ intentos = <<>>
    /\ indicadores \in [sma : BOOLEAN, rsi : BOOLEAN, macd : BOOLEAN]
    /\ df = SinMarco
    /\ data = SinMarco
    /\ reco = SinReco

\* what one call of the wrapped function does: yf.download raises, or it
\* returns the provider's frame, which raises ValueError when empty
Resultados == IF Empty(provider) THEN {"error", "vacio"} ELSE {"error", "ok"}

\* an attempt returns data: safe_download returns it and makes no further attempt
IntentoOk ==
    /\ pc = "download"
    /\ Len(intentos) < MaxIntentos
    /\ "ok" \in Resultados
    /\ intentos' = Append(intentos, "ok")
    /\ df' = provider
    /\ pc' = "prepare"
    /\ UNCHANGED <<provider, indicadores, data, reco>>

\* variant: the stop condition is off by one
IntentoReintentaDeMas ==
    /\ pc = "download"
    /\ \E r \in Resultados \ {"ok"} :
         /\ Len(intentos) + 1 <= MaxIntentos
         /\ intentos' = Append(intentos, r)
    /\ UNCHANGED <<pc, provider, indicadores, df, data, reco>>

\* an attempt fails and the stop condition is not met: wait and try again
IntentoReintenta ==
    /\ pc = "download"
    /\ \E r \in Resultados \ {"ok"} :
         /\ Len(intentos) + 1 < MaxIntentos
         /\ intentos' = Append(intentos, r)
    /\ UNCHANGED <<pc, provider, indicadores, df, data, reco>>

\* the last allowed attempt fails: RetryError leaves the script
IntentoAgota ==
    /\ pc = "download"
    /\ \E r \in Resultados \ {"ok"} :
         /\ Len(intentos) + 1 = MaxIntentos
         /\ intentos' = Append(intentos, r)
    /\ pc' = "failed"
    /\ UNCHANGED <<provider, indicadores, df, data, reco>>

\* next((c for c in ['Adj Close', 'Close'] if c in df.columns), None)
PriceCol(f) ==
    IF "Adj Close" \in DOMAIN f THEN "Adj Close"
    ELSE IF "Close" \in DOMAIN f THEN "Close"
    ELSE "None"

Preparado(f) ==
    LET base == [Precio |-> f[PriceCol(f)]]
    IN  IF "Volume" \in DOMAIN f THEN [Volumen |-> f["Volume"]] @@ base ELSE base

\* no price column: st.error and st.stop
SinPrecio ==
    /\ pc = "prepare"
    /\ PriceCol(df) = "None"
    /\ pc' = "stopped"
    /\ UNCHANGED <<provider, intentos, indicadores, df, data, reco>>

Preparar ==
    /\ pc = "prepare"
    /\ PriceCol(df) # "None"
    /\ data' = Preparado(df)
    /\ pc' = "compute"
    /\ UNCHANGED <<provider, intentos, indicadores, df, reco>>

Calcular ==
    /\ pc = "compute"
    /\ data' = calcular_indicadores(data, indicadores)
    /\ pc' = "recommend"
    /\ UNCHANGED <<provider, intentos, indicadores, df, reco>>

\* lines 136-195 (charts, metrics, tabs) read data and change nothing; the
\* SMA, RSI and MACD columns are read there only under their own flags
Recomendar ==
    /\ pc = "recommend"
    /\ reco' = generar_recomendacion(data)
    /\ pc' = "done"
    /\ UNCHANGED <<provider, intentos, indicadores, df, data>>

Next ==
    \/ IntentoOk
    \/ IntentoReintenta
    \/ IntentoAgota
    \/ SinPrecio
    \/ Preparar
    \/ Calcular
    \/ Recomendar

Spec == Init /\ [][Next]_vars

----------------------------------------------------------------------------
(* generar_recomendacion on its own: frames whose latest row holds any      *)
(* combination of values, over any subset of the four columns it reads      *)

MaxVal == 3

ValoresPrecio == {Int2V(v) : v \in 1..MaxVal} \cup {NaN}
ValoresRSI    == {Int2V(v) : v \in {0, 29, 30, 31, 69, 70, 71, 100}} \cup {NaN}

\* two rows: an undefined first row and the latest row
MarcoReco(cols, p, sma50, sma200, rsi) ==
    [c \in cols |-> <<NaN, CASE c = "Precio" -> p
                             [] c = "SMA50"  -> sma50
                             [] c = "SMA200" -> sma200
                             [] c = "RSI"    -> rsi>>]

InitReco ==
    /\ pc = "recommend"
    /\ provider = MarcoVacio
    /\ intentos = <<>>
    /\ indicadores = [sma |-> TRUE, rsi |-> TRUE, macd |-> FALSE]
    /\ df = SinMarco
    /\ \E cols \in SUBSET Leidas, p \in ValoresPrecio, sma50 \in ValoresPrecio,
          sma200 \in ValoresPrecio, rsi \in ValoresRSI :
            data = MarcoReco(cols, p, sma50, sma200, rsi)
    /\ reco = SinReco

SpecReco == InitReco /\ [][Recomendar]_vars

----------------------------------------------------------------------------
(* Properties *)

\* comparisons of two defined numbers
Mayor(x, y) == x.n * y.d > y.n * x.d
Menor(x, y) == x.n * y.d < y.n * x.d
Igual(x, y) == x.n * y.d = y.n * x.d

Rango(seq) == {seq[i] : i \in 1..Len(seq)}

\* the four values generar_recomendacion reads are all present and numbers
Definidos(d) == ~Lanza(d) /\ \A c \in Leidas : IsNum(Ultimo(d[c]))

UP    == Ultimo(data["Precio"])
U50   == Ultimo(data["SMA50"])
U200  == Ultimo(data["SMA200"])
URSI  == Ultimo(data["RSI"])

Veredictos == {<<"COMPRA", "buy">>, <<"VENTA", "sell">>, <<"MANTENER", "hold">>}

\* the six conditions of the rule table, in table order
Tabla(p, sma50, sma200, rsi) ==
    <<[si |-> Mayor(p, sma200) /\ Mayor(sma50, sma200), msg |-> MsgAlcista, delta |-> 1],
      [si |-> Menor(p, sma200) /\ Menor(sma50, sma200), msg |-> MsgBajista, delta |-> -1],
      [si |-> Mayor(sma50, sma200),                     msg |-> MsgGolden,  delta |-> 1],
      [si |-> Menor(sma50, sma200),                     msg |-> MsgDeath,   delta |-> -1],
      [si |-> Mayor(rsi, Int2V(70)),                    msg |-> MsgRsiAlto, delta |-> -1],
      [si |-> Menor(rsi, Int2V(30)),                    msg |-> MsgRsiBajo, delta |-> 1]>>

Ciertas(t) == SelectSeq(t, LAMBDA e : e.si)

Mensajes(sel) == [i \in 1..Len(sel) |-> sel[i].msg]

RECURSIVE SumaDeltas(_)
SumaDeltas(sel) == IF sel = <<>> THEN 0 ELSE Head(sel).delta + SumaDeltas(Tail(sel))

\* C2: with the four latest values defined, the verdict is BUY exactly when the
\* accumulated score is at least 2, SELL exactly when it is at most -2, HOLD for
\* -1, 0 and 1, and text and tag always form one of the three verdict pairs.
C2_Veredicto ==
    pc = "done" /\ Definidos(data) =>
        /\ (reco.tipo = "buy"  <=> reco.score >= 2)
        /\ (reco.tipo = "sell" <=> reco.score <= -2)
        /\ (reco.tipo = "hold" <=> reco.score \in {-1, 0, 1})
        /\ <<reco.texto, reco.tipo>> \in Veredictos

C2_Witness ==
    pc = "done" /\ Definidos(data) /\ reco.tipo = "buy" /\ reco.score = 3

\* C3: with the four latest values defined, the reason list is exactly the
\* conditions of the table that are true, in table order, the score is the sum of
\* their deltas, and an exact tie adds neither a reason nor a delta.
C3_Razones ==
    pc = "done" /\ Definidos(data) =>
        LET sel == Ciertas(Tabla(UP, U50, U200, URSI))
        IN  /\ reco.condiciones = Mensajes(sel)
            /\ reco.score = SumaDeltas(sel)
            /\ (Igual(UP, U200) =>
                    Rango(reco.condiciones) \cap {MsgAlcista, MsgBajista} = {})
            /\ (Igual(U50, U200) =>
                    /\ Rango(reco.condiciones) \subseteq {MsgRsiAlto, MsgRsiBajo}
                    /\ reco.score \in {-1, 0, 1})

\* a HOLD reached through opposing contributions still lists both
C3_Witness ==
    /\ pc = "done"
    /\ Definidos(data)
    /\ reco.tipo = "hold"
    /\ reco.score = 0
    /\ reco.condiciones = <<MsgGolden, MsgRsiAlto>>

\* Precio and SMA50 reflected about SMA200
Reflejo(v, eje) == FSub(FAdd(eje, eje), v)

Espejo(d) ==
    [Precio |-> <<Reflejo(Ultimo(d["Precio"]), Ultimo(d["SMA200"]))>>,
     SMA50  |-> <<Reflejo(Ultimo(d["SMA50"]), Ultimo(d["SMA200"]))>>,
     SMA200 |-> <<Ultimo(d["SMA200"])>>,
     RSI    |-> <<Ultimo(d["RSI"])>>]

\* what the RSI rule contributed, read off the reason list
ParteRSI(r) ==
    IF MsgRsiAlto \in Rango(r.condiciones) THEN -1
    ELSE IF MsgRsiBajo \in Rango(r.condiciones) THEN 1
    ELSE 0

ParteTendencia(r) == r.score - ParteRSI(r)

Tiene(r, msg) == msg \in Rango(r.condiciones)

\* C8: reversing every strict ordering of Precio and SMA50 relative to SMA200
\* (RSI unchanged) negates the trend and cross contribution to the score and
\* swaps bullish with bearish trend and golden with death cross in the reasons.
C8_Simetria ==
    pc = "done" /\ Definidos(data) =>
        LET m == generar_recomendacion(Espejo(data))
        IN  /\ ParteTendencia(m) = -ParteTendencia(reco)
            /\ ParteRSI(m) = ParteRSI(reco)
            /\ (Tiene(m, MsgAlcista) <=> Tiene(reco, MsgBajista))
            /\ (Tiene(m, MsgBajista) <=> Tiene(reco, MsgAlcista))
            /\ (Tiene(m, MsgGolden)  <=> Tiene(reco, MsgDeath))
            /\ (Tiene(m, MsgDeath)   <=> Tiene(reco, MsgGolden))

C8_Witness ==
    /\ pc = "done"
    /\ Definidos(data)
    /\ Tiene(reco, MsgBajista)
    /\ Tiene(reco, MsgDeath)
    /\ Tiene(generar_recomendacion(Espejo(data)), MsgAlcista)

\* C10: with the four latest values defined, the score lies in -3..3 and there
\* are at most three reasons, at most one per rule group; BUY needs the golden
\* cross and no overbought RSI, SELL needs the death cross and no oversold RSI;
\* bullish trend and golden cross with RSI above 70 give score 1 and HOLD.
C10_Cotas ==
    pc = "done" /\ Definidos(data) =>
        /\ reco.score \in -3..3
        /\ Len(reco.condiciones) <= 3
        /\ ~(Tiene(reco, MsgAlcista) /\ Tiene(reco, MsgBajista))
        /\ ~(Tiene(reco, MsgGolden) /\ Tiene(reco, MsgDeath))
        /\ ~(Tiene(reco, MsgRsiAlto) /\ Tiene(reco, MsgRsiBajo))
        /\ Cardinality(Rango(reco.condiciones)) = Len(reco.condiciones)
        /\ (reco.tipo = "buy"  => Mayor(U50, U200) /\ ~Mayor(URSI, Int2V(70)))
        /\ (reco.tipo = "sell" => Menor(U50, U200) /\ ~Menor(URSI, Int2V(30)))
        /\ (Mayor(UP, U200) /\ Mayor(U50, U200) /\ Mayor(URSI, Int2V(70)) =>
                reco.score = 1 /\ reco.tipo = "hold")

C10_Witness ==
    /\ pc = "done"
    /\ Definidos(data)
    /\ reco.condiciones = <<MsgAlcista, MsgGolden, MsgRsiAlto>>
    /\ reco.score = 1
    /\ reco.tipo = "hold"

----------------------------------------------------------------------------
(* Properties of the whole script *)

Calculado == pc \in {"recommend", "done"}

Motivos == {MsgAlcista, MsgBajista, MsgGolden, MsgDeath, MsgRsiAlto, MsgRsiBajo}

\* C1: when one of the four latest values is present but undefined (not enough
\* history), the result is HOLD with the insufficient-indicators message as its
\* only reason.
C1_FaltaHistoria ==
    pc = "done" /\ ~Lanza(data) /\ (\E c \in Leidas : IsNaN(Ultimo(data[c]))) =>
        /\ reco.texto = "MANTENER"
        /\ reco.tipo = "hold"
        /\ reco.condiciones = <<MsgFaltan>>

Plana250 == [i \in 1..250 |-> Int2V(100)]

\* C4: for the price flat at 100 over 250 points with every flag set, at the last
\* index SMA50 = SMA200 = 100 and RSI = 100, the score is -1, the verdict HOLD and
\* the only reason the overbought one.
C4_SeriePlana ==
    /\ pc = "done"
    /\ indicadores = [sma |-> TRUE, rsi |-> TRUE, macd |-> TRUE]
    /\ data["Precio"] = Plana250
    =>  /\ U50 = Int2V(100)
        /\ U200 = Int2V(100)
        /\ URSI = Int2V(100)
        /\ reco.score = -1
        /\ reco.texto = "MANTENER"
        /\ reco.tipo = "hold"
        /\ reco.condiciones = <<MsgRsiAlto>>

\* the rise and the fall of the step into index i (none into the first index)
Subida(precio, i) ==
    IF i > 1 /\ Mayor(precio[i], precio[i - 1]) THEN FSub(precio[i], precio[i - 1]) ELSE Zero
Bajada(precio, i) ==
    IF i > 1 /\ Menor(precio[i], precio[i - 1]) THEN FSub(precio[i - 1], precio[i]) ELSE Zero

RECURSIVE SumaSubidas(_, _, _)
SumaSubidas(precio, lo, hi) ==
    IF lo > hi THEN Zero ELSE FAdd(Subida(precio, hi), SumaSubidas(precio, lo, hi - 1))

RECURSIVE SumaBajadas(_, _, _)
SumaBajadas(precio, lo, hi) ==
    IF lo > hi THEN Zero ELSE FAdd(Bajada(precio, hi), SumaBajadas(precio, lo, hi - 1))

\* C5: wherever RSI is defined it lies in 0..100, it is never infinite, and it is
\* 100 exactly where the trailing 14 steps hold no fall and at least one rise.
C5_RangoRSI ==
    pc = "recommend" /\ "RSI" \in DOMAIN data =>
        \A i \in 1..Len(data["RSI"]) :
            LET r == data["RSI"][i]
            IN  /\ r.k \in {"num", "nan"}
                /\ (IsNum(r) => ~Menor(r, Zero) /\ ~Mayor(r, Int2V(100)))
                /\ (IsNum(r) /\ Igual(r, Int2V(100))
                        <=> /\ i >= 14
                            /\ SumaBajadas(data["Precio"], i - 13, i) = Zero
                            /\ Mayor(SumaSubidas(data["Precio"], i - 13, i), Zero))

\* a series with an undefined RSI in a full flat window and RSI = 100 after a rise
C5_Witness ==
    /\ pc = "recommend"
    /\ "RSI" \in DOMAIN data
    /\ Len(data["RSI"]) >= 50
    /\ IsNaN(data["RSI"][49])
    /\ Ultimo(data["RSI"]) = Int2V(100)
    /\ SumaBajadas(data["Precio"], Len(data["Precio"]) - 13, Len(data["Precio"])) = Zero

\* C6: the columns added are SMA50 and SMA200 iff sma, RSI iff rsi, MACD and
\* Signal iff macd, nothing else; Precio and Volumen are as loaded; every column
\* is as long as Precio.
C6_Columnas ==
    Calculado =>
        /\ DOMAIN data =
              {"Precio"}
              \cup (IF "Volume" \in DOMAIN df THEN {"Volumen"} ELSE {})
              \cup (IF indicadores.sma THEN {"SMA50", "SMA200"} ELSE {})
              \cup (IF indicadores.rsi THEN {"RSI"} ELSE {})
              \cup (IF indicadores.macd THEN {"MACD", "Signal"} ELSE {})
        /\ data["Precio"] = df[PriceCol(df)]
        /\ ("Volume" \in DOMAIN df => data["Volumen"] = df["Volume"])
        /\ \A c \in DOMAIN data : Len(data[c]) = Len(df[PriceCol(df)])

C6_Witness ==
    /\ pc = "done"
    /\ indicadores = [sma |-> FALSE, rsi |-> TRUE, macd |-> TRUE]
    /\ DOMAIN data = {"Precio", "Volumen", "RSI", "MACD", "Signal"}
    /\ Len(data["Signal"]) = 250

\* C7: with the sma or the rsi flag unset the result is HOLD with the
\* insufficient-indicators message as its only reason, whatever the prices and
\* the macd flag; and that message comes from nowhere else.
C7_SinIndicador ==
    pc = "done" =>
        /\ (~indicadores.sma \/ ~indicadores.rsi =>
                /\ reco.texto = "MANTENER"
                /\ reco.tipo = "hold"
                /\ reco.condiciones = <<MsgFaltan>>
                /\ Rango(reco.condiciones) \cap Motivos = {})
        /\ (MsgFaltan \in Rango(reco.condiciones) =>
                ~indicadores.sma \/ ~indicadores.rsi)

\* the averages have their full history and the rsi flag alone is unset
C7_Witness ==
    /\ pc = "done"
    /\ indicadores = [sma |-> TRUE, rsi |-> FALSE, macd |-> TRUE]
    /\ Len(data["Precio"]) >= 200
    /\ IsNum(U200)
    /\ Mayor(U50, U200)
    /\ reco.condiciones = <<MsgFaltan>>

SinOk(seq) == \A i \in 1..Len(seq) : seq[i] # "ok"

\* C9: safe_download makes at most 3 attempts, stops at the first that returns
\* data and hands that data on; a raise and an empty result are failed attempts;
\* after three of them the script ends without computing anything, and a range
\* that holds nothing always ends so.
C9_Reintentos ==
    /\ Len(intentos) <= 3
    /\ \A i \in 1..Len(intentos) : intentos[i] = "ok" => i = Len(intentos)
    /\ (pc = "download" => Len(intentos) < 3 /\ SinOk(intentos) /\ df = SinMarco)
    /\ (pc \in {"prepare", "compute", "recommend", "done", "stopped"} =>
            /\ intentos # <<>>
            /\ Ultimo(intentos) = "ok"
            /\ df = provider
            /\ ~Empty(df))
    /\ (pc = "failed" =>
            /\ Len(intentos) = 3
            /\ SinOk(intentos)
            /\ df = SinMarco /\ data = SinMarco /\ reco = SinReco)
    /\ (Empty(provider) =>
            /\ pc \in {"download", "failed"}
            /\ "ok" \notin Rango(intentos)
            /\ data = SinMarco /\ reco = SinReco)

\* an empty range after a raise and two empty results
C9_Witness ==
    /\ pc = "failed"
    /\ Empty(provider)
    /\ intentos = <<"error", "vacio", "vacio">>

====
